---- MODULE Spec2Model ----
(***************************************************************************)
(* Model of lichess-puzzle-stats (src/puzzle.py).                          *)
(*                                                                         *)
(* Spec        : the collection pipeline - retry, get_puzzle_history,      *)
(*               fetch_perf and save, with process termination and         *)
(*               restart from the cache file.                              *)
(* SpecFilter  : the sampling pass - filter_perf over normalized series.   *)
(* SpecPipeline: fetch_perf runs and filter commands over one cache file:  *)
(*               cache -> parse_perf -> filter_perf -> sample.json.        *)
(* SpecMain    : __main__ - the commands fetch, filter and stats, run one  *)
(*               after the other against the files on disk.                *)
(* SpecAnalyze : analyze over bounded samples.                             *)
(***************************************************************************)
EXTENDS Integers, Sequences, FiniteSets, TLC

\* ------------------------------------------------------------------ bounds
MaxLen == 2        \* longest candidate user sequence handed to fetch_perf
MaxRuns == 2       \* fetch_perf / retry / filter invocations explored per behaviour

\* ------------------------------------------------------------ data values
UserIds == {"a", "b"}

\* python None / a list of raw points, as the second component of a cache entry
None == [some |-> FALSE, points |-> <<>>]
Some(pts) == [some |-> TRUE, points |-> pts]

\* raw points as the remote returns them: (year, zero-based month, day, value)
RawPoints == << <<2020, 2, 4, 110>>, <<2020, 3, 6, 150>> >>

\* rating histories the remote can answer with: a list of tracks
HistBoth == << [name |-> "Blitz", points |-> << <<2020, 0, 1, 1500>> >>],
               [name |-> "Puzzles", points |-> RawPoints] >>
HistNoPuzzles == << [name |-> "Blitz", points |-> << <<2020, 0, 1, 1500>> >>] >>
Histories == {HistBoth, HistNoPuzzles}

\* outcome of one remote call: a value, a berserk ResponseError with a status
\* code, or an exception of another class
Ok(hist) == [kind |-> "ok", status |-> 200, history |-> hist]
ResponseError(code) == [kind |-> "ResponseError", status |-> code, history |-> <<>>]
OtherException == [kind |-> "Exception", status |-> 0, history |-> <<>>]
StorageError == [kind |-> "OSError", status |-> 0, history |-> <<>>]
NoError == [kind |-> "none", status |-> 0, history |-> <<>>]
Outcomes == {Ok(hs) : hs \in Histories}
              \cup {ResponseError(c) : c \in {404, 429, 500}}
              \cup {OtherException}

\* truthiness of a cache entry's history: `if h:` / `if p:`
Truthy(p) == p.some /\ Len(p.points) > 0

\* ------------------------------------------------------------------ files
\* A file is a record: exists, the entries it holds, and whether the text
\* ends in the middle of the JSON document (not parseable).
NoFile == [exists |-> FALSE, entries |-> <<>>, torn |-> FALSE]
File(es) == [exists |-> TRUE, entries |-> es, torn |-> FALSE]
Partial(es) == [exists |-> TRUE, entries |-> es, torn |-> TRUE]

VARIABLES
  pc,        \* position of the process
  op,        \* operation in progress: "fetch_perf", "retry" or "none"; in
             \* __main__ the command: "fetch", "filter" or "stats"
  data,      \* fetch_perf: the in-memory cache list
  users,     \* fetch_perf: candidate sequence
  num,       \* fetch_perf: processing cap
  idx,       \* fetch_perf: position of `for user in users`
  checked, cached, withdata,   \* fetch_perf counters
  user,      \* get_puzzle_history argument
  h,         \* value returned by get_puzzle_history
  outs,      \* outcomes of the remote calls of the current invocation
  sleeps,    \* time.sleep(61) calls of the current invocation
  raised,    \* exception propagating out of the operation (NoError if none)
  result,    \* value returned by retry(f)
  perffile,  \* the cache file on disk
  partfile,  \* atomic_save's temporary file next to it
  written,   \* entries of `data` json.dump has written so far
  committed, \* argument of the last save call that returned
  runCalls,  \* remote calls made by the current fetch_perf run
  runSaves,  \* save calls completed by the current fetch_perf run
  atStart,   \* data and file as the current fetch_perf run found them
  again,     \* the current run repeats a completed run's users and num
  excUsers,  \* users whose first call raised a non-ResponseError this run
  runs,      \* operations started so far
  parsed,    \* filter_perf: the data argument, parse_perf's (user, series) list
  args,      \* filter_perf: start, end, tolerance, ref_start, ref_end, ref_tolerance
  fidx,      \* filter_perf: position of `for user, perf in data`
  closest,   \* filter_perf: the four closest_* of the user just scanned
  accepted,  \* filter_perf: the user just scanned passed the tolerance check
  values,    \* filter_perf: the list of accepted tuples
  samplefile, \* sample.json
  fpc,       \* position of filter_perf
  noTrack,   \* users cached from an answer without a "Puzzles" track
  sampleArgs, \* arguments of the filter_perf call that wrote sample.json
  deltas,    \* analyze: deltas and ref_deltas
  deltasfile, \* deltas.json
  report     \* analyze: what period() returned for each period so far

vars == <<pc, op, data, users, num, idx, checked, cached, withdata, user, h,
          outs, sleeps, raised, result, perffile, partfile, written,
          committed, runCalls, runSaves, atStart, again, excUsers, runs,
          parsed, args, fidx, closest, accepted, values, samplefile, fpc,
          noTrack, sampleArgs, deltas, deltasfile, report>>

fetchVars == <<users, num, idx, checked, cached, withdata>>
gphVars == <<user, h, outs, sleeps>>
fileVars == <<perffile, partfile, written, committed>>
ghostVars == <<runCalls, runSaves, atStart, again, excUsers>>
collectVars == <<pc, op, data, fetchVars, gphVars, raised, result, fileVars,
                 ghostVars, runs>>
filterVars == <<parsed, args, fidx, closest, accepted, values, samplefile, fpc>>
analyzeVars == <<deltas, deltasfile, report>>

RECURSIVE SeqsUpTo(_, _)
SeqsUpTo(S, n) ==
  IF n = 0 THEN {<<>>}
  ELSE LET shorter == SeqsUpTo(S, n - 1)
       IN shorter \cup {Append(s, x) : s \in {t \in shorter : Len(t) = n - 1}, x \in S}

Candidates == SeqsUpTo(UserIds, MaxLen)

\* processing caps (--num-users) for a candidate sequence: below, at and above
\* its length
Caps(us) == 0..(Len(us) + 1)

\* cache files the first process may find (main loads perf from args.perffile):
\* an empty list, and a list that names a user twice
InitialCaches ==
  { <<>>,
    << <<"a", Some(RawPoints)>>, <<"a", None>> >> }

\* the collection side before its first operation, with cache c on disk and
\* loaded
InitCollect(c) ==
  /\ data = c
  /\ perffile = File(c)
  /\ committed = c
  /\ atStart = [data |-> c, file |-> File(c)]
  /\ pc = "ready"
  /\ op = "none"
  /\ users = <<>>
  /\ num = 0
  /\ idx = 1
  /\ checked = 0
  /\ cached = 0
  /\ withdata = 0
  /\ user = "a"
  /\ h = None
  /\ outs = <<>>
  /\ sleeps = 0
  /\ raised = NoError
  /\ result = NoError
  /\ partfile = NoFile
  /\ written = 0
  /\ runCalls = 0
  /\ runSaves = 0
  /\ again = FALSE
  /\ excUsers = {}
  /\ runs = 0
  /\ noTrack = {}

\* ---------------------------------------------------------------- helpers
\* variant: the scan stops after the first entry of the cache
InCacheFirstOnly(d, u) == Len(d) > 0 /\ d[1][1] = u

\* variant: the scan only accepts entries that carry a history
InCacheWithData(d, u) == \E i \in 1..Len(d) : d[i][1] = u /\ Truthy(d[i][2])

\* the `for (u, p) in data: if u == user` scan of fetch_perf
InCache(d, u) == \E i \in 1..Len(d) : d[i][1] = u
FirstEntry(d, u) == d[CHOOSE i \in 1..Len(d) : d[i][1] = u /\ \A j \in 1..(i - 1) : d[j][1] # u]

\* variant: the points of the first track, whatever its name
PuzzlePointsAnyTrack(history) ==
  IF Len(history) = 0 THEN None ELSE Some(history[1].points)

\* lines 132-135 of get_puzzle_history: the points of the first "Puzzles" track
IsPuzzles(track) == track.name = "Puzzles"
PuzzlePoints(history) ==
  LET perf == SelectSeq(history, IsPuzzles)
  IN IF Len(perf) = 0 THEN None ELSE Some(perf[1].points)

\* a remote call returned a history in which `len(perf) == 0`
NoPuzzlesAnswer(o) == o.kind = "ok" /\ Len(SelectSeq(o.history, IsPuzzles)) = 0

Running == pc \notin {"ready", "done", "aborted", "crashed"}

\* ------------------------------------------------------------- fetch_perf
\* fetch_perf(data, users, num, filename) is entered
FetchStart(us, n) ==
  /\ pc = "ready"
  /\ runs < MaxRuns
  /\ runs' = runs + 1
  /\ op' = "fetch_perf"
  /\ pc' = "loop"
  /\ users' = us
  /\ num' = n
  /\ idx' = 1
  /\ checked' = 0
  /\ cached' = 0
  /\ withdata' = 0
  /\ raised' = NoError
  /\ runCalls' = 0
  /\ runSaves' = 0
  /\ atStart' = [data |-> data, file |-> perffile]
  /\ again' = (op = "fetch_perf" /\ us = users /\ n = num)
  /\ excUsers' = {}
  /\ user' = "a"
  /\ h' = None
  /\ outs' = <<>>
  /\ sleeps' = 0
  /\ UNCHANGED <<analyzeVars, noTrack, sampleArgs, filterVars, data, result, fileVars>>

\* variant: a user that already has an entry is skipped without counting
\* toward the cap
LoopCachedUncounted ==
  /\ pc = "loop"
  /\ idx <= Len(users)
  /\ checked < num
  /\ InCache(data, users[idx])
  /\ cached' = cached + 1
  /\ withdata' = IF Truthy(FirstEntry(data, users[idx])[2]) THEN withdata + 1 ELSE withdata
  /\ idx' = idx + 1
  /\ UNCHANGED <<analyzeVars, noTrack, sampleArgs, filterVars, pc, op, data, users, num, checked, gphVars, raised, result,
                 fileVars, ghostVars, runs>>

\* one iteration of the loop for a user that already has an entry
LoopCached ==
  /\ pc = "loop"
  /\ idx <= Len(users)
  /\ checked < num
  /\ InCache(data, users[idx])
  /\ checked' = checked + 1
  /\ cached' = cached + 1
  /\ withdata' = IF Truthy(FirstEntry(data, users[idx])[2]) THEN withdata + 1 ELSE withdata
  /\ idx' = idx + 1
  /\ UNCHANGED <<analyzeVars, noTrack, sampleArgs, filterVars, pc, op, data, users, num, gphVars, raised, result, fileVars,
                 ghostVars, runs>>

\* one iteration for a user without an entry: get_puzzle_history(user) is entered
LoopMiss ==
  /\ pc = "loop"
  /\ idx <= Len(users)
  /\ checked < num
  /\ ~InCache(data, users[idx])
  /\ checked' = checked + 1
  /\ user' = users[idx]
  /\ outs' = <<>>
  /\ sleeps' = 0
  /\ pc' = "call1"
  /\ UNCHANGED <<analyzeVars, noTrack, sampleArgs, filterVars, op, data, users, num, idx, cached, withdata, h, raised, result,
                 fileVars, ghostVars, runs>>

\* the loop ends (sequence exhausted or `checked >= num`) and fetch_perf returns
LoopEnd ==
  /\ pc = "loop"
  /\ (idx > Len(users) \/ checked >= num)
  /\ pc' = "done"
  /\ UNCHANGED <<analyzeVars, noTrack, sampleArgs, filterVars, op, data, fetchVars, gphVars, raised, result, fileVars,
                 ghostVars, runs>>

\* ----------------------------------------------------- get_puzzle_history
\* first remote call returns a history
GphOk(o) ==
  /\ pc = "call1"
  /\ o.kind = "ok"
  /\ outs' = Append(outs, o)
  /\ runCalls' = runCalls + 1
  /\ h' = PuzzlePoints(o.history)
  /\ pc' = "append"
  /\ UNCHANGED <<analyzeVars, noTrack, sampleArgs, filterVars, op, data, fetchVars, user, sleeps, raised, result, fileVars,
                 runSaves, atStart, again, excUsers, runs>>

\* variant: a 404 answer is treated like throttling, with a sleep and a retry
GphNotFoundRetries(o) ==
  /\ pc = "call1"
  /\ o.kind = "ResponseError" /\ o.status = 404
  /\ outs' = Append(outs, o)
  /\ runCalls' = runCalls + 1
  /\ pc' = "sleep"
  /\ UNCHANGED <<analyzeVars, noTrack, sampleArgs, filterVars, op, data, fetchVars, user, h, sleeps, raised, result, fileVars,
                 runSaves, atStart, again, excUsers, runs>>

\* first remote call raises ResponseError 404: return None
GphNotFound(o) ==
  /\ pc = "call1"
  /\ o.kind = "ResponseError" /\ o.status = 404
  /\ outs' = Append(outs, o)
  /\ runCalls' = runCalls + 1
  /\ h' = None
  /\ pc' = "append"
  /\ UNCHANGED <<analyzeVars, noTrack, sampleArgs, filterVars, op, data, fetchVars, user, sleeps, raised, result, fileVars,
                 runSaves, atStart, again, excUsers, runs>>

\* first remote call raises ResponseError 429: go to sleep
GphThrottled(o) ==
  /\ pc = "call1"
  /\ o.kind = "ResponseError" /\ o.status = 429
  /\ outs' = Append(outs, o)
  /\ runCalls' = runCalls + 1
  /\ pc' = "sleep"
  /\ UNCHANGED <<analyzeVars, noTrack, sampleArgs, filterVars, op, data, fetchVars, user, h, sleeps, raised, result, fileVars,
                 runSaves, atStart, again, excUsers, runs>>

\* first remote call raises a ResponseError with another status: raise err
GphFatal(o) ==
  /\ pc = "call1"
  /\ o.kind = "ResponseError" /\ o.status \notin {404, 429}
  /\ outs' = Append(outs, o)
  /\ runCalls' = runCalls + 1
  /\ raised' = o
  /\ pc' = "aborted"
  /\ UNCHANGED <<analyzeVars, noTrack, sampleArgs, filterVars, op, data, fetchVars, user, h, sleeps, result, fileVars,
                 runSaves, atStart, again, excUsers, runs>>

\* variant: an exception of another class is re-raised like a ResponseError
GphExceptionRaises(o) ==
  /\ pc = "call1"
  /\ o.kind = "Exception"
  /\ outs' = Append(outs, o)
  /\ runCalls' = runCalls + 1
  /\ raised' = o
  /\ pc' = "aborted"
  /\ UNCHANGED <<analyzeVars, noTrack, sampleArgs, filterVars, op, data, fetchVars, user, h, sleeps, result, fileVars,
                 runSaves, atStart, again, excUsers, runs>>

\* first remote call raises an exception that is not a ResponseError: return None
GphException(o) ==
  /\ pc = "call1"
  /\ o.kind = "Exception"
  /\ outs' = Append(outs, o)
  /\ runCalls' = runCalls + 1
  /\ h' = None
  /\ excUsers' = excUsers \cup {user}
  /\ pc' = "append"
  /\ UNCHANGED <<analyzeVars, noTrack, sampleArgs, filterVars, op, data, fetchVars, user, sleeps, raised, result, fileVars,
                 runSaves, atStart, again, runs>>

\* variant: the 429 branch keeps sleeping and calling until the remote answers
GphSleepAndStay ==
  /\ pc = "sleep"
  /\ sleeps' = sleeps + 1
  /\ pc' = "call1"
  /\ UNCHANGED <<analyzeVars, noTrack, sampleArgs, filterVars, op, data, fetchVars, user, h, outs, raised, result, fileVars,
                 ghostVars, runs>>

\* time.sleep(61) of the 429 branch
GphSleep ==
  /\ pc = "sleep"
  /\ sleeps' = sleeps + 1
  /\ pc' = "call2"
  /\ UNCHANGED <<analyzeVars, noTrack, sampleArgs, filterVars, op, data, fetchVars, user, h, outs, raised, result, fileVars,
                 ghostVars, runs>>

\* second remote call, made inside the except clause, returns a history
GphRetryOk(o) ==
  /\ pc = "call2"
  /\ o.kind = "ok"
  /\ outs' = Append(outs, o)
  /\ runCalls' = runCalls + 1
  /\ h' = PuzzlePoints(o.history)
  /\ pc' = "append"
  /\ UNCHANGED <<analyzeVars, noTrack, sampleArgs, filterVars, op, data, fetchVars, user, sleeps, raised, result, fileVars,
                 runSaves, atStart, again, excUsers, runs>>

\* variant: an error of the second remote call is handled like one of the
\* first call that is no ResponseError, the user is recorded without data
GphRetryIsolates(o) ==
  /\ pc = "call2"
  /\ o.kind # "ok"
  /\ outs' = Append(outs, o)
  /\ runCalls' = runCalls + 1
  /\ h' = None
  /\ pc' = "append"
  /\ UNCHANGED <<analyzeVars, noTrack, sampleArgs, filterVars, op, data, fetchVars, user, sleeps, raised, result, fileVars,
                 runSaves, atStart, again, excUsers, runs>>

\* second remote call raises anything: no handler applies inside the except
\* clause, the exception leaves get_puzzle_history and fetch_perf
GphRetryRaises(o) ==
  /\ pc = "call2"
  /\ o.kind # "ok"
  /\ outs' = Append(outs, o)
  /\ runCalls' = runCalls + 1
  /\ raised' = o
  /\ pc' = "aborted"
  /\ UNCHANGED <<analyzeVars, noTrack, sampleArgs, filterVars, op, data, fetchVars, user, h, sleeps, result, fileVars,
                 runSaves, atStart, again, excUsers, runs>>

\* variant: the new entry is put at the head of the list
AppendEntryFront ==
  /\ pc = "append"
  /\ withdata' = IF Truthy(h) THEN withdata + 1 ELSE withdata
  /\ data' = <<(<<user, h>>)>> \o data
  /\ pc' = "save_open"
  /\ UNCHANGED <<analyzeVars, noTrack, sampleArgs, filterVars, op, users, num, idx, checked, cached, gphVars, raised, result,
                 fileVars, ghostVars, runs>>

\* back in fetch_perf: `if h: withdata += 1`, data.append((user, h)),
\* and save(filename, data) is entered
AppendEntry ==
  /\ pc = "append"
  /\ withdata' = IF Truthy(h) THEN withdata + 1 ELSE withdata
  /\ data' = Append(data, <<user, h>>)
  /\ pc' = "save_open"
  /\ UNCHANGED <<analyzeVars, noTrack, sampleArgs, filterVars, op, users, num, idx, checked, cached, gphVars, raised, result,
                 fileVars, ghostVars, runs>>

\* ------------------------------------------------------------------- save
\* variant: the destination itself is opened for writing, which truncates it
SaveOpenInPlace ==
  /\ pc = "save_open"
  /\ perffile' = Partial(<<>>)
  /\ partfile' = Partial(<<>>)
  /\ written' = 0
  /\ pc' = "save_write"
  /\ UNCHANGED <<analyzeVars, noTrack, sampleArgs, filterVars, op, data, fetchVars, gphVars, raised, result,
                 committed, ghostVars, runs>>

\* atomic_save opens the temporary file next to the destination
SaveOpen ==
  /\ pc = "save_open"
  /\ partfile' = Partial(<<>>)
  /\ written' = 0
  /\ pc' = "save_write"
  /\ UNCHANGED <<analyzeVars, noTrack, sampleArgs, filterVars, op, data, fetchVars, gphVars, raised, result, perffile,
                 committed, ghostVars, runs>>

\* json.dump writes the next entry of data to the temporary file
SaveWrite ==
  /\ pc = "save_write"
  /\ written < Len(data)
  /\ written' = written + 1
  /\ partfile' = Partial(SubSeq(data, 1, written + 1))
  /\ UNCHANGED <<analyzeVars, noTrack, sampleArgs, filterVars, pc, op, data, fetchVars, gphVars, raised, result, perffile,
                 committed, ghostVars, runs>>

\* json.dump writes the end of the document and the with-block is left
SaveFinish ==
  /\ pc = "save_write"
  /\ written = Len(data)
  /\ partfile' = File(partfile.entries)
  /\ pc' = "save_rename"
  /\ UNCHANGED <<analyzeVars, noTrack, sampleArgs, filterVars, op, data, fetchVars, gphVars, raised, result, perffile,
                 written, committed, ghostVars, runs>>

\* atomic_save renames the temporary file over the destination; save returns
\* and the loop of fetch_perf goes on to the next user
SaveRename ==
  /\ pc = "save_rename"
  /\ perffile' = partfile
  /\ partfile' = NoFile
  /\ committed' = data
  /\ runSaves' = runSaves + 1
  /\ idx' = idx + 1
  /\ pc' = "loop"
  /\ noTrack' = IF NoPuzzlesAnswer(outs[Len(outs)]) THEN noTrack \cup {user} ELSE noTrack
  /\ UNCHANGED <<analyzeVars, sampleArgs, filterVars, op, data, users, num, checked, cached,
                 withdata, gphVars, raised, result, written, runCalls, atStart, again,
                 excUsers, runs>>

\* the storage fails during save: atomic_save removes the temporary file it
\* created and the error leaves fetch_perf
SaveFail ==
  /\ pc \in {"save_open", "save_write", "save_rename"}
  /\ partfile' = IF pc = "save_open" THEN partfile ELSE NoFile
  /\ raised' = StorageError
  /\ pc' = "aborted"
  /\ UNCHANGED <<analyzeVars, noTrack, sampleArgs, filterVars, op, data, fetchVars, gphVars, result, perffile, written,
                 committed, ghostVars, runs>>

\* ------------------------------------------------------------------ retry
\* retry(f) is entered
RetryStart ==
  /\ pc = "ready"
  /\ runs < MaxRuns
  /\ runs' = runs + 1
  /\ op' = "retry"
  /\ pc' = "r_call1"
  /\ outs' = <<>>
  /\ sleeps' = 0
  /\ raised' = NoError
  /\ result' = NoError
  /\ UNCHANGED <<analyzeVars, noTrack, sampleArgs, filterVars, data, fetchVars, user, h, fileVars, ghostVars>>

\* f() returns
RetryOk(o) ==
  /\ pc = "r_call1"
  /\ o.kind = "ok"
  /\ outs' = Append(outs, o)
  /\ result' = o
  /\ pc' = "done"
  /\ UNCHANGED <<analyzeVars, noTrack, sampleArgs, filterVars, op, data, fetchVars, user, h, sleeps, raised, fileVars,
                 ghostVars, runs>>

\* f() raises ResponseError 429
RetryThrottled(o) ==
  /\ pc = "r_call1"
  /\ o.kind = "ResponseError" /\ o.status = 429
  /\ outs' = Append(outs, o)
  /\ pc' = "r_sleep"
  /\ UNCHANGED <<analyzeVars, noTrack, sampleArgs, filterVars, op, data, fetchVars, user, h, sleeps, raised, result, fileVars,
                 ghostVars, runs>>

\* f() raises a ResponseError with another status (raise err) or an exception
\* of another class (not caught)
RetryRaises(o) ==
  /\ pc = "r_call1"
  /\ \/ o.kind = "ResponseError" /\ o.status # 429
     \/ o.kind = "Exception"
  /\ outs' = Append(outs, o)
  /\ raised' = o
  /\ pc' = "aborted"
  /\ UNCHANGED <<analyzeVars, noTrack, sampleArgs, filterVars, op, data, fetchVars, user, h, sleeps, result, fileVars,
                 ghostVars, runs>>

\* time.sleep(61)
RetrySleep ==
  /\ pc = "r_sleep"
  /\ sleeps' = sleeps + 1
  /\ pc' = "r_call2"
  /\ UNCHANGED <<analyzeVars, noTrack, sampleArgs, filterVars, op, data, fetchVars, user, h, outs, raised, result, fileVars,
                 ghostVars, runs>>

\* the second f() returns
RetrySecondOk(o) ==
  /\ pc = "r_call2"
  /\ o.kind = "ok"
  /\ outs' = Append(outs, o)
  /\ result' = o
  /\ pc' = "done"
  /\ UNCHANGED <<analyzeVars, noTrack, sampleArgs, filterVars, op, data, fetchVars, user, h, sleeps, raised, fileVars,
                 ghostVars, runs>>

\* the second f() raises: nothing catches it
RetrySecondRaises(o) ==
  /\ pc = "r_call2"
  /\ o.kind # "ok"
  /\ outs' = Append(outs, o)
  /\ raised' = o
  /\ pc' = "aborted"
  /\ UNCHANGED <<analyzeVars, noTrack, sampleArgs, filterVars, op, data, fetchVars, user, h, sleeps, result, fileVars,
                 ghostVars, runs>>

\* ------------------------------------------------- termination and restart
\* the operation has returned to its caller: its locals are gone; the cache
\* list stays with the caller, who may call again (op, users and num tell the
\* next call what the completed one was)
Return ==
  /\ pc = "done"
  /\ pc' = "ready"
  /\ idx' = 1
  /\ checked' = 0
  /\ cached' = 0
  /\ withdata' = 0
  /\ user' = "a"
  /\ h' = None
  /\ outs' = <<>>
  /\ sleeps' = 0
  /\ result' = NoError
  /\ UNCHANGED <<analyzeVars, noTrack, sampleArgs, filterVars, op, data, users, num, raised, fileVars, ghostVars, runs>>

\* the process is terminated at any point of an operation: everything it held
\* in memory is gone, the files stay as they are
Crash ==
  /\ Running
  /\ pc' = "crashed"
  /\ data' = <<>>
  /\ users' = <<>>
  /\ num' = 0
  /\ idx' = 1
  /\ checked' = 0
  /\ cached' = 0
  /\ withdata' = 0
  /\ h' = None
  /\ outs' = <<>>
  /\ sleeps' = 0
  /\ result' = NoError
  /\ written' = 0
  /\ UNCHANGED <<analyzeVars, noTrack, sampleArgs, filterVars, op, user, raised, perffile, partfile, committed, ghostVars, runs>>

\* a new process starts and loads the cache file (json.load of args.perffile)
Restart ==
  /\ pc \in {"crashed", "aborted"}
  /\ perffile.exists /\ ~perffile.torn
  /\ data' = perffile.entries
  /\ op' = "none"
  /\ pc' = "ready"
  /\ raised' = NoError
  /\ users' = <<>>
  /\ num' = 0
  /\ idx' = 1
  /\ checked' = 0
  /\ cached' = 0
  /\ withdata' = 0
  /\ user' = "a"
  /\ h' = None
  /\ outs' = <<>>
  /\ sleeps' = 0
  /\ result' = NoError
  /\ written' = 0
  /\ UNCHANGED <<analyzeVars, noTrack, sampleArgs, filterVars, perffile, partfile, committed, ghostVars, runs>>

\* ============================================================ filter_perf
\* datetime.date as its proleptic Gregorian ordinal: date(1, 1, 1) is day 1,
\* and the difference of two dates is a number of days
IsLeap(y) == y % 4 = 0 /\ (y % 100 # 0 \/ y % 400 = 0)
DaysInMonth(y, m) ==
  IF m = 2 THEN (IF IsLeap(y) THEN 29 ELSE 28)
  ELSE IF m \in {4, 6, 9, 11} THEN 30 ELSE 31
RECURSIVE DaysBeforeMonth(_, _)
DaysBeforeMonth(y, m) ==
  IF m = 1 THEN 0 ELSE DaysBeforeMonth(y, m - 1) + DaysInMonth(y, m - 1)
DaysBeforeYear(y) ==
  (y - 1) * 365 + ((y - 1) \div 4) - ((y - 1) \div 100) + ((y - 1) \div 400)
Date(y, m, d) == DaysBeforeYear(y) + DaysBeforeMonth(y, m) + d

\* datetime.date.min
DateMin == Date(1, 1, 1)

Abs(x) == IF x < 0 THEN 0 - x ELSE x

\* a closest_* pair: (day, score), or (datetime.date.min, None)
Sentinel == [day |-> DateMin, score |-> 0, null |-> TRUE]
Found(point) == [day |-> point[1], score |-> point[2], null |-> FALSE]

\* variant: a point at equal distance replaces the current closest
CloserOrEqual(day, target, best) == Abs(day - target) <= Abs(target - best.day)

\* `abs(day - start) < abs(start - closest_start[0])`
Closer(day, target, best) == Abs(day - target) < Abs(target - best.day)

\* the `for day, score in perf` loop for one target date, from point i on
RECURSIVE ScanFrom(_, _, _, _)
ScanFrom(perf, i, target, best) ==
  IF i > Len(perf) THEN best
  ELSE ScanFrom(perf, i + 1, target,
                IF Closer(perf[i][1], target, best) THEN Found(perf[i]) ELSE best)

Scan(perf, target) == ScanFrom(perf, 1, target, Sentinel)

\* truthiness of closest_*[1]: None and 0 are false
HasScore(c) == ~c.null /\ c.score # 0

\* the tolerance check of lines 202-205
WithinTolerance(c, a) ==
  /\ HasScore(c.start) /\ Abs(c.start.day - a.start) <= a.tolerance
  /\ HasScore(c.ref_start) /\ Abs(c.ref_start.day - a.ref_start) <= a.tolerance
  /\ HasScore(c.end) /\ Abs(c.end.day - a.end) <= a.ref_tolerance
  /\ HasScore(c.ref_end) /\ Abs(c.ref_end.day - a.ref_end) <= a.ref_tolerance

\* one iteration of `for user, perf in data`: scan the series for the four
\* targets, check the tolerances, append the tuple
FilterUser ==
  /\ fpc = "scan"
  /\ fidx <= Len(parsed)
  /\ LET perf == parsed[fidx][2]
         c == [start |-> Scan(perf, args.start),
               ref_start |-> Scan(perf, args.ref_start),
               end |-> Scan(perf, args.end),
               ref_end |-> Scan(perf, args.ref_end)]
     IN /\ closest' = c
        /\ accepted' = WithinTolerance(c, args)
        /\ values' = IF WithinTolerance(c, args)
                     THEN Append(values, <<c.start.score, c.end.score,
                                           c.ref_start.score, c.ref_end.score>>)
                     ELSE values
  /\ fidx' = fidx + 1
  /\ UNCHANGED <<analyzeVars, noTrack, sampleArgs, collectVars, parsed, args, samplefile, fpc>>

\* after the loop: save("sample.json", values) and return values
FilterSave ==
  /\ fpc = "scan"
  /\ fidx > Len(parsed)
  /\ samplefile' = [exists |-> TRUE, values |-> values]
  /\ sampleArgs' = args
  /\ fpc' = "returned"
  /\ UNCHANGED <<analyzeVars, noTrack, collectVars, parsed, args, fidx, closest, accepted, values>>

\* ------------------------------------------------- inputs of filter_perf
MaxPoints == 2     \* longest series of the first user
MaxUsers == 2      \* most users in the data handed to filter_perf

Names == <<"A", "B", "C", "D">>

\* the default command line: --start, --end, --ref_start, --ref_end and the
\* two 7-day tolerances of __main__
ScenarioArgs ==
  [start |-> Date(2020, 3, 5), end |-> Date(2020, 4, 5), tolerance |-> 7,
   ref_start |-> Date(2020, 2, 1), ref_end |-> Date(2020, 3, 1), ref_tolerance |-> 7]

SeriesA == << <<Date(2020, 2, 1), 100>>, <<Date(2020, 3, 4), 110>>,
              <<Date(2020, 3, 6), 130>>, <<Date(2020, 4, 6), 150>> >>
SeriesASwapped == << <<Date(2020, 2, 1), 100>>, <<Date(2020, 3, 6), 130>>,
                     <<Date(2020, 3, 4), 110>>, <<Date(2020, 4, 6), 150>> >>
SeriesAZero == << <<Date(2020, 2, 1), 0>>, <<Date(2020, 3, 4), 110>>,
                  <<Date(2020, 3, 6), 130>>, <<Date(2020, 4, 6), 150>> >>
ScenarioSeries == {SeriesA, SeriesASwapped, SeriesAZero}

\* four targets a few days apart, counted from a base day b
NearArgs(b, tol) ==
  [start |-> b + 4, end |-> b + 6, tolerance |-> tol[1],
   ref_start |-> b + 3, ref_end |-> b + 5, ref_tolerance |-> tol[2]]

\* base days: the eve of date.min, and 2020-03-01
Bases == {DateMin - 1, Date(2020, 3, 1)}
Tolerances == {<<1, 1>>, <<2, 2>>, <<2, 1>>, <<1, 2>>}
Scores == {0, 110}
NearPoints(b) == {<<b + k, v>> : k \in 2..8, v \in Scores}
NearSeries(b) == SeqsUpTo(NearPoints(b), MaxPoints)
MoreSeries(b) == { <<>>, << <<b + 4, 110>>, <<b + 5, 110>> >> }

\* (user, series) lists of up to MaxUsers users: the first series from `first`,
\* the later ones from `more`
RECURSIVE DataUpTo(_, _, _)
DataUpTo(first, more, n) ==
  IF n = 0 THEN {<<>>}
  ELSE LET shorter == DataUpTo(first, more, n - 1)
       IN shorter \cup
          {Append(d, <<Names[n], x>>) :
             d \in {t \in shorter : Len(t) = n - 1},
             x \in IF n = 1 THEN first ELSE more}

InitFilterInputs ==
  \/ /\ args = ScenarioArgs
     /\ parsed \in DataUpTo(ScenarioSeries, ScenarioSeries, MaxUsers)
  \/ \E b \in Bases, tol \in Tolerances :
       /\ args = NearArgs(b, tol)
       /\ parsed \in DataUpTo(NearSeries(b), MoreSeries(b), MaxUsers)

\* no call of filter_perf has written sample.json yet
NoArgs ==
  [start |-> 0, end |-> 0, tolerance |-> 0, ref_start |-> 0, ref_end |-> 0, ref_tolerance |-> 0]

\* no call of analyze has been made
InitAnalyze ==
  /\ deltas = [study |-> <<>>, ref |-> <<>>]
  /\ deltasfile = [exists |-> FALSE, study |-> <<>>, ref |-> <<>>, args |-> NoArgs]
  /\ report = <<>>

InitFilterLocals ==
  /\ fidx = 1
  /\ closest = [start |-> Sentinel, ref_start |-> Sentinel,
                end |-> Sentinel, ref_end |-> Sentinel]
  /\ accepted = FALSE
  /\ values = <<>>
  /\ samplefile = [exists |-> FALSE, values |-> <<>>]
  /\ sampleArgs = NoArgs

\* filter_perf has been entered with its arguments
InitFilter ==
  /\ InitCollect(<<>>)
  /\ InitFilterInputs
  /\ InitFilterLocals
  /\ InitAnalyze
  /\ fpc = "scan"

NextFilter ==
  \/ FilterUser
  \/ FilterSave

SpecFilter == InitFilter /\ [][NextFilter]_vars

\* ============================================================= parse_perf
\* variant: the month of the raw point is taken as it is
ParsePointAsStored(d) == <<Date(d[1], d[2], d[3]), d[4]>>

\* (datetime.date(d[0], d[1] + 1, d[2]), d[3]) for a raw point d
ParsePoint(d) == <<Date(d[1], d[2] + 1, d[3]), d[4]>>
ParseSeries(perf) == [j \in 1..Len(perf) |-> ParsePoint(perf[j])]

\* `for (user, perf) in data if perf`
HasPerf(e) == Truthy(e[2])
ParsePerf(d) ==
  LET kept == SelectSeq(d, HasPerf)
  IN [k \in 1..Len(kept) |-> <<kept[k][1], ParseSeries(kept[k][2].points)>>]

\* ---------------------------------------------------- the filter command
\* target dates that put all four targets within 7 days of a point of
\* RawPoints (2020-03-04 and 2020-04-06 once parsed)
SpringArgs ==
  [start |-> Date(2020, 3, 5), end |-> Date(2020, 4, 5), tolerance |-> 7,
   ref_start |-> Date(2020, 3, 1), ref_end |-> Date(2020, 4, 1), ref_tolerance |-> 7]
CommandArgs == {ScenarioArgs, SpringArgs}

\* filter_perf(parse_perf(perf), ...) is entered: `values = []`
EnterFilterPerf(a) ==
  /\ parsed' = ParsePerf(data)
  /\ args' = a
  /\ fidx' = 1
  /\ closest' = [start |-> Sentinel, ref_start |-> Sentinel,
                 end |-> Sentinel, ref_end |-> Sentinel]
  /\ accepted' = FALSE
  /\ values' = <<>>
  /\ fpc' = "scan"

\* the "filter" branch of __main__ with the loaded cache
FilterCommand(a) ==
  /\ pc = "ready"
  /\ runs < MaxRuns
  /\ runs' = runs + 1
  /\ op' = "filter"
  /\ pc' = "filter"
  /\ EnterFilterPerf(a)
  /\ UNCHANGED <<analyzeVars, noTrack, sampleArgs, samplefile, data, fetchVars, gphVars,
                 raised, result, fileVars, ghostVars>>

\* filter_perf running inside the filter command
FilterCommandUser == pc = "filter" /\ FilterUser
FilterCommandSave == pc = "filter" /\ FilterSave

\* filter_perf has returned and the command is over; its locals are gone
FilterCommandExit ==
  /\ pc = "filter"
  /\ fpc = "returned"
  /\ pc' = "ready"
  /\ parsed' = <<>>
  /\ args' = ScenarioArgs
  /\ fidx' = 1
  /\ closest' = [start |-> Sentinel, ref_start |-> Sentinel,
                 end |-> Sentinel, ref_end |-> Sentinel]
  /\ accepted' = FALSE
  /\ values' = <<>>
  /\ fpc' = "idle"
  /\ UNCHANGED <<analyzeVars, noTrack, sampleArgs, samplefile, op, data, fetchVars, gphVars,
                 raised, result, fileVars, ghostVars, runs>>

\* ------------------------------------------------------------ collection
Init ==
  /\ \E c \in InitialCaches : InitCollect(c)
  /\ args = ScenarioArgs
  /\ parsed = <<>>
  /\ InitFilterLocals
  /\ InitAnalyze
  /\ fpc = "idle"

Next ==
  \/ \E us \in Candidates : \E n \in Caps(us) : FetchStart(us, n)
  \/ LoopCached
  \/ LoopMiss
  \/ LoopEnd
  \/ \E o \in Outcomes : GphOk(o)
  \/ \E o \in Outcomes : GphNotFound(o)
  \/ \E o \in Outcomes : GphThrottled(o)
  \/ \E o \in Outcomes : GphFatal(o)
  \/ \E o \in Outcomes : GphException(o)
  \/ GphSleep
  \/ \E o \in Outcomes : GphRetryOk(o)
  \/ \E o \in Outcomes : GphRetryRaises(o)
  \/ AppendEntry
  \/ SaveOpen
  \/ SaveWrite
  \/ SaveFinish
  \/ SaveRename
  \/ SaveFail
  \/ RetryStart
  \/ \E o \in Outcomes : RetryOk(o)
  \/ \E o \in Outcomes : RetryThrottled(o)
  \/ \E o \in Outcomes : RetryRaises(o)
  \/ RetrySleep
  \/ \E o \in Outcomes : RetrySecondOk(o)
  \/ \E o \in Outcomes : RetrySecondRaises(o)
  \/ Return
  \/ Crash
  \/ Restart

Spec == Init /\ [][Next]_vars

\* ------------------------------------------------- collection, then filter
\* fetch_perf runs over whole candidate sequences and filter commands, in any
\* order, by processes that may be killed and started again
NextPipeline ==
  \/ \E us \in Candidates : FetchStart(us, Len(us))
  \/ LoopCached
  \/ LoopMiss
  \/ LoopEnd
  \/ \E o \in Outcomes : GphOk(o)
  \/ \E o \in Outcomes : GphNotFound(o)
  \/ \E o \in Outcomes : GphThrottled(o)
  \/ \E o \in Outcomes : GphFatal(o)
  \/ \E o \in Outcomes : GphException(o)
  \/ GphSleep
  \/ \E o \in Outcomes : GphRetryOk(o)
  \/ \E o \in Outcomes : GphRetryRaises(o)
  \/ AppendEntry
  \/ SaveOpen
  \/ SaveWrite
  \/ SaveFinish
  \/ SaveRename
  \/ SaveFail
  \/ \E a \in CommandArgs : FilterCommand(a)
  \/ FilterCommandUser
  \/ FilterCommandSave
  \/ FilterCommandExit
  \/ Return
  \/ Crash
  \/ Restart

SpecPipeline == Init /\ [][NextPipeline]_vars

\* ================================================================ analyze
MaxSamples == 3    \* most tuples in the sample handed to analyze

FileNotFoundError == [kind |-> "FileNotFoundError", status |-> 0, history |-> <<>>]
TypeError == [kind |-> "TypeError", status |-> 0, history |-> <<>>]
ZeroDivisionError == [kind |-> "ZeroDivisionError", status |-> 0, history |-> <<>>]

\* `s-e for (s, e, _, _) in values` and `s-e for (_, _, s, e) in values`
StudyDeltas(vs) == [i \in 1..Len(vs) |-> vs[i][1] - vs[i][2]]
RefDeltas(vs) == [i \in 1..Len(vs) |-> vs[i][3] - vs[i][4]]

\* period(ds): the positions counted by `if d > 0` and by `elif d < 0`
Increased(ds) == {i \in 1..Len(ds) : ds[i] > 0}
Decreased(ds) == {i \in 1..Len(ds) : ds[i] < 0}

RECURSIVE SumOver(_, _)
SumOver(ds, I) ==
  IF I = {} THEN 0
  ELSE LET i == CHOOSE j \in I : TRUE IN ds[i] + SumOver(ds, I \ {i})

\* int(a / b) for b > 0: the quotient rounded toward zero
IntDiv(a, b) == IF a >= 0 THEN a \div b ELSE -((-a) \div b)

\* the return expression of period divides by len(ds), increased and decreased
PeriodRaises(ds) == Len(ds) = 0 \/ Increased(ds) = {} \/ Decreased(ds) = {}

\* what period(ds) returns and the loop of analyze prints for it: the share
\* printed as "improved" is increased / len(ds), the one printed as
\* "regressed" is decreased / len(ds)
Period(label, ds) ==
  [label |-> label,
   mean |-> IntDiv(SumOver(ds, 1..Len(ds)), Len(ds)),
   of |-> Len(ds),
   improved |-> Cardinality(Increased(ds)),
   improvement |-> IntDiv(SumOver(ds, Increased(ds)), Cardinality(Increased(ds))),
   regressed |-> Cardinality(Decreased(ds)),
   decrease |-> IntDiv(SumOver(ds, Decreased(ds)), Cardinality(Decreased(ds)))]

Labels == <<"period", "reference period">>

\* analyze is entered: the two delta lists are built and saved to deltas.json
\* together with the parameters of this call
AnalyzeDeltas ==
  /\ pc = "analyze"
  /\ deltas' = [study |-> StudyDeltas(values), ref |-> RefDeltas(values)]
  /\ deltasfile' = [exists |-> TRUE, study |-> StudyDeltas(values),
                    ref |-> RefDeltas(values), args |-> args]
  /\ report' = <<>>
  /\ pc' = "period"
  /\ UNCHANGED <<noTrack, sampleArgs, filterVars, op, data, fetchVars, gphVars, raised,
                 result, fileVars, ghostVars, runs>>

\* one iteration of `for (label, ds) in [...]`: period(ds) returns and the
\* two lines are printed
AnalyzePeriod ==
  /\ pc = "period"
  /\ Len(report) < Len(Labels)
  /\ LET k == Len(report) + 1
         ds == IF k = 1 THEN deltas.study ELSE deltas.ref
     IN /\ ~PeriodRaises(ds)
        /\ report' = Append(report, Period(Labels[k], ds))
  /\ UNCHANGED <<deltas, deltasfile, noTrack, sampleArgs, filterVars, pc, op, data, fetchVars,
                 gphVars, raised, result, fileVars, ghostVars, runs>>

\* one iteration in which period(ds) divides by zero: the sample is empty, or
\* no delta is positive, or no delta is negative
AnalyzePeriodRaises ==
  /\ pc = "period"
  /\ Len(report) < Len(Labels)
  /\ PeriodRaises(IF Len(report) = 0 THEN deltas.study ELSE deltas.ref)
  /\ raised' = ZeroDivisionError
  /\ pc' = "failed"
  /\ UNCHANGED <<analyzeVars, noTrack, sampleArgs, filterVars, op, data, fetchVars, gphVars,
                 result, fileVars, ghostVars, runs>>

\* both periods are printed; analyze goes on to the plots and returns
AnalyzeReturn ==
  /\ pc = "period"
  /\ Len(report) = Len(Labels)
  /\ pc' = "exited"
  /\ UNCHANGED <<analyzeVars, noTrack, sampleArgs, filterVars, op, data, fetchVars, gphVars,
                 raised, result, fileVars, ghostVars, runs>>

\* samples handed to analyze: tuples (start, end, ref_start, ref_end) whose
\* start and end values rise, fall or stay
SampleTuples == { <<110, 150, 100, 110>>, <<150, 110, 110, 100>>, <<110, 110, 100, 100>> }
Samples == SeqsUpTo(SampleTuples, MaxSamples)

\* a process at position p of command o, with nothing else in memory, the
\* cache file f on disk and no sample.json
InitProcess(p, o, f) ==
  /\ pc = p
  /\ op = o
  /\ data = <<>>
  /\ perffile = f
  /\ committed = f.entries
  /\ atStart = [data |-> <<>>, file |-> f]
  /\ users = <<>>
  /\ num = 0
  /\ idx = 1
  /\ checked = 0
  /\ cached = 0
  /\ withdata = 0
  /\ user = "a"
  /\ h = None
  /\ outs = <<>>
  /\ sleeps = 0
  /\ raised = NoError
  /\ result = NoError
  /\ partfile = NoFile
  /\ written = 0
  /\ runCalls = 0
  /\ runSaves = 0
  /\ again = FALSE
  /\ excUsers = {}
  /\ runs = 0
  /\ noTrack = {}
  /\ args = ScenarioArgs
  /\ parsed = <<>>
  /\ fidx = 1
  /\ closest = [start |-> Sentinel, ref_start |-> Sentinel,
                end |-> Sentinel, ref_end |-> Sentinel]
  /\ accepted = FALSE
  /\ samplefile = [exists |-> FALSE, values |-> <<>>]
  /\ sampleArgs = NoArgs
  /\ fpc = "idle"
  /\ InitAnalyze

\* analyze has been called with a sample and the default parameters
InitStats ==
  /\ InitProcess("analyze", "stats", File(<<>>))
  /\ values \in Samples

NextAnalyze ==
  \/ AnalyzeDeltas
  \/ AnalyzePeriod
  \/ AnalyzePeriodRaises
  \/ AnalyzeReturn

SpecAnalyze == InitStats /\ [][NextAnalyze]_vars

\* =============================================================== __main__
\* a second history, falling where RawPoints rises
FallingPoints == << <<2020, 2, 4, 150>>, <<2020, 3, 6, 110>> >>

\* what args.perffile may be when a command is run: absent, or a list
MainCaches ==
  { <<>>,
    << <<"a", Some(RawPoints)>>, <<"b", None>> >>,
    << <<"a", Some(RawPoints)>>, <<"b", Some(FallingPoints)>> >> }
MainCacheFiles == {NoFile} \cup {File(c) : c \in MainCaches}
Commands == {"fetch", "filter", "stats"}

\* no process is running
InitMain ==
  /\ \E f \in MainCacheFiles : InitProcess("shell", "none", f)
  /\ values = <<>>

\* the program is started with a command and its target dates
MainStart(cmd, a) ==
  /\ pc = "shell"
  /\ op' = cmd
  /\ args' = a
  /\ pc' = "load"
  /\ UNCHANGED <<analyzeVars, noTrack, sampleArgs, parsed, fidx, closest, accepted, values,
                 samplefile, fpc, data, fetchVars, gphVars, raised, result, fileVars,
                 ghostVars, runs>>

\* `with open(args.perffile, "r") as f: perf = json.load(f)`
MainLoad ==
  /\ pc = "load"
  /\ perffile.exists
  /\ data' = perffile.entries
  /\ pc' = "dispatch"
  /\ UNCHANGED <<analyzeVars, noTrack, sampleArgs, filterVars, op, fetchVars, gphVars, raised,
                 result, fileVars, ghostVars, runs>>

\* open raises FileNotFoundError, whatever the command
MainLoadRaises ==
  /\ pc = "load"
  /\ ~perffile.exists
  /\ raised' = FileNotFoundError
  /\ pc' = "failed"
  /\ UNCHANGED <<analyzeVars, noTrack, sampleArgs, filterVars, op, data, fetchVars, gphVars,
                 result, fileVars, ghostVars, runs>>

\* "fetch": get_users(args.userfile) is called without cached_only, which
\* raises TypeError before any user is read
MainFetch ==
  /\ pc = "dispatch"
  /\ op = "fetch"
  /\ raised' = TypeError
  /\ pc' = "failed"
  /\ UNCHANGED <<analyzeVars, noTrack, sampleArgs, filterVars, op, data, fetchVars, gphVars,
                 result, fileVars, ghostVars, runs>>

\* "filter": filter_perf(parse_perf(perf), ...) is entered
MainFilter ==
  /\ pc = "dispatch"
  /\ op = "filter"
  /\ EnterFilterPerf(args)
  /\ pc' = "filter"
  /\ UNCHANGED <<analyzeVars, noTrack, sampleArgs, samplefile, op, data, fetchVars, gphVars,
                 raised, result, fileVars, ghostVars, runs>>

\* filter_perf has returned
MainFilterDone ==
  /\ pc = "filter"
  /\ fpc = "returned"
  /\ pc' = "exited"
  /\ UNCHANGED <<analyzeVars, noTrack, sampleArgs, filterVars, op, data, fetchVars, gphVars,
                 raised, result, fileVars, ghostVars, runs>>

\* variant: sample.json is used only if it was written for the same
\* parameters, and counts as empty otherwise
MainStatsKeyed ==
  /\ pc = "dispatch"
  /\ op = "stats"
  /\ samplefile.exists
  /\ values' = IF sampleArgs = args THEN samplefile.values ELSE <<>>
  /\ pc' = "analyze"
  /\ UNCHANGED <<analyzeVars, noTrack, sampleArgs, parsed, args, fidx, closest, accepted,
                 samplefile, fpc, op, data, fetchVars, gphVars, raised, result, fileVars,
                 ghostVars, runs>>

\* "stats": `values = json.load(f)` of sample.json, then analyze is called
MainStats ==
  /\ pc = "dispatch"
  /\ op = "stats"
  /\ samplefile.exists
  /\ values' = samplefile.values
  /\ pc' = "analyze"
  /\ UNCHANGED <<analyzeVars, noTrack, sampleArgs, parsed, args, fidx, closest, accepted,
                 samplefile, fpc, op, data, fetchVars, gphVars, raised, result, fileVars,
                 ghostVars, runs>>

\* "stats" without a sample.json: open raises FileNotFoundError
MainStatsRaises ==
  /\ pc = "dispatch"
  /\ op = "stats"
  /\ ~samplefile.exists
  /\ raised' = FileNotFoundError
  /\ pc' = "failed"
  /\ UNCHANGED <<analyzeVars, noTrack, sampleArgs, filterVars, op, data, fetchVars, gphVars,
                 result, fileVars, ghostVars, runs>>

\* the process ends, normally or with a traceback; the files stay
MainExit ==
  /\ pc \in {"exited", "failed"}
  /\ pc' = "shell"
  /\ op' = "none"
  /\ data' = <<>>
  /\ raised' = NoError
  /\ parsed' = <<>>
  /\ args' = ScenarioArgs
  /\ fidx' = 1
  /\ closest' = [start |-> Sentinel, ref_start |-> Sentinel,
                 end |-> Sentinel, ref_end |-> Sentinel]
  /\ accepted' = FALSE
  /\ values' = <<>>
  /\ fpc' = "idle"
  /\ deltas' = [study |-> <<>>, ref |-> <<>>]
  /\ report' = <<>>
  /\ UNCHANGED <<deltasfile, noTrack, sampleArgs, samplefile, fetchVars, gphVars, result,
                 fileVars, ghostVars, runs>>

NextMain ==
  \/ \E cmd \in Commands : \E a \in CommandArgs : MainStart(cmd, a)
  \/ MainLoad
  \/ MainLoadRaises
  \/ MainFetch
  \/ MainFilter
  \/ FilterCommandUser
  \/ FilterCommandSave
  \/ MainFilterDone
  \/ MainStats
  \/ MainStatsRaises
  \/ AnalyzeDeltas
  \/ AnalyzePeriod
  \/ AnalyzePeriodRaises
  \/ AnalyzeReturn
  \/ MainExit

SpecMain == InitMain /\ [][NextMain]_vars

\* ======================================================= properties (Spec)
IsPrefix(s, t) == Len(s) <= Len(t) /\ SubSeq(t, 1, Len(s)) = s
Unique(d) == \A i, j \in 1..Len(d) : d[i][1] = d[j][1] => i = j

\* C1 - crash-safety: at every point, also after the process was terminated or
\* a save failed, the cache file is a complete document holding exactly the
\* list of the last save call that returned: the entries the run started from
\* followed by one entry per completed save, in order; the in-memory list is
\* at most one entry (the in-flight user's) ahead of the file.
C1_CrashSafety ==
  /\ perffile.exists /\ ~perffile.torn
  /\ perffile.entries = committed
  /\ pc # "crashed" =>
       /\ IsPrefix(perffile.entries, data)
       /\ Len(data) <= Len(perffile.entries) + 1
  /\ op = "fetch_perf" =>
       /\ IsPrefix(atStart.file.entries, perffile.entries)
       /\ Len(perffile.entries) = Len(atStart.file.entries) + runSaves
       /\ pc \in {"loop", "call1", "sleep", "call2", "append", "done"} =>
            perffile.entries = data

\* the process was terminated during the second save of a run, while json.dump
\* had written part of the document to the temporary file
C1_Witness ==
  /\ pc = "crashed"
  /\ op = "fetch_perf"
  /\ runSaves = 1
  /\ partfile.exists /\ partfile.torn
  /\ Len(partfile.entries) = Len(perffile.entries)

IsOtherError(o) == o.kind \in {"ResponseError", "Exception"} /\ o.status \notin {404, 429}

\* C2 as claimed - an error of the first remote call that is neither 429 nor
\* 404 never propagates out of fetch_perf.
C2_AnyOtherErrorIsIsolated ==
  (op = "fetch_perf" /\ Len(outs) = 1 /\ IsOtherError(outs[1])) => raised # outs[1]

\* C2 amended - an exception of the first remote call that is not a
\* ResponseError does not propagate: the user gets the entry (user, None), the
\* cache is saved with it and the loop goes on; a ResponseError whose status is
\* neither 429 nor 404 is re-raised and ends the run without an entry.
C2_PerUserIsolation ==
  /\ (op = "fetch_perf" /\ Len(outs) = 1 /\ outs[1].kind = "Exception") =>
       /\ raised # outs[1]
       /\ pc \in {"append", "save_open", "save_write", "save_rename", "loop",
                  "done", "aborted", "crashed"}
       /\ pc = "aborted" => raised = StorageError
       /\ h = None
       /\ user \in excUsers
  /\ \A u \in excUsers :
       (op = "fetch_perf" /\ pc \in {"loop", "call1", "sleep", "call2", "done"}) =>
         /\ InCache(data, u) /\ FirstEntry(data, u)[2] = None
         /\ InCache(perffile.entries, u)
  /\ (op = "fetch_perf" /\ Len(outs) = 1 /\ outs[1].kind = "ResponseError"
        /\ outs[1].status \notin {404, 429}) =>
       /\ pc = "aborted" /\ raised = outs[1]
       /\ ~InCache(data, user)

\* a user's call raised a non-ResponseError, its (user, None) entry is on disk
\* and the run has gone on to the remote call of the next user
C2_Witness ==
  /\ op = "fetch_perf"
  /\ pc = "call1"
  /\ excUsers # {}
  /\ user \notin excUsers
  /\ \A u \in excUsers : <<u, None>> = perffile.entries[Len(perffile.entries)]

\* C4 - throttle backoff of retry(f) and get_puzzle_history(user): a 429 on the
\* first call is followed by exactly one sleep and one more call; when that
\* call succeeds its result is returned, when it is throttled too the error
\* propagates; there is never a third call.
C4_ThrottleBackoff ==
  /\ Len(outs) <= 2
  /\ sleeps <= 1
  /\ Len(outs) = 2 => (outs[1] = ResponseError(429) /\ sleeps = 1)
  /\ (op = "fetch_perf" /\ Len(outs) >= 1 /\ outs[1] = ResponseError(429)
        /\ pc \in {"append", "save_open", "save_write", "save_rename", "loop",
                   "done", "aborted"}) =>
       /\ Len(outs) = 2 /\ sleeps = 1
       /\ outs[2].kind = "ok" =>
            (h = PuzzlePoints(outs[2].history) /\ raised # outs[2])
       /\ outs[2].kind # "ok" => (pc = "aborted" /\ raised = outs[2])
  /\ (op = "retry" /\ Len(outs) >= 1 /\ outs[1] = ResponseError(429)
        /\ pc \in {"done", "aborted"}) =>
       /\ Len(outs) = 2 /\ sleeps = 1
       /\ outs[2].kind = "ok" => (pc = "done" /\ result = outs[2] /\ raised = NoError)
       /\ outs[2].kind # "ok" => (pc = "aborted" /\ raised = outs[2])
  /\ (op = "retry" /\ pc = "done") => (result = outs[Len(outs)] /\ result.kind = "ok")

\* get_puzzle_history was throttled once, slept once, got the history on the
\* second call, and its points were stored
C4_Witness ==
  /\ op = "fetch_perf"
  /\ pc = "loop"
  /\ Len(outs) = 2
  /\ outs[1] = ResponseError(429)
  /\ outs[2] = Ok(HistBoth)
  /\ sleeps = 1
  /\ data[Len(data)] = <<user, Some(RawPoints)>>

\* C5 - idempotent caching: a run of fetch_perf that repeats the users and num
\* of the completed run before it makes no remote call and no save, and leaves
\* the in-memory cache and the cache file as it found them.
C5_IdempotentCaching ==
  (op = "fetch_perf" /\ again) =>
    /\ runCalls = 0
    /\ runSaves = 0
    /\ perffile = atStart.file
    /\ pc # "crashed" => data = atStart.data
    /\ pc \in {"loop", "done", "ready", "crashed"}

\* the repeated run has finished after examining two different users, both
\* from the cache; no initial cache holds both, so the first run fetched one
C5_Witness ==
  /\ op = "fetch_perf"
  /\ again
  /\ pc = "done"
  /\ checked = 2
  /\ cached = 2
  /\ users[1] # users[2]

\* C6 - cache uniqueness: no step turns a cache (the in-memory list and the
\* file) with at most one entry per user into one with two entries for a user, whatever the candidate
\* sequences, and every remote call of fetch_perf is made for a user that has
\* no entry in the cache, an entry without history included.
C6_CacheUniqueness ==
  /\ [][(Unique(data) /\ Unique(perffile.entries)) =>
          (Unique(data') /\ Unique(perffile'.entries))]_vars
  /\ [][(op' = "fetch_perf" /\ runCalls' # runCalls /\ runCalls' # 0) =>
          ~InCache(data, user)]_vars
  /\ [](op = "fetch_perf" /\ pc \in {"call1", "sleep", "call2", "append"} =>
          ~InCache(data, user))

\* a candidate sequence names the same user twice; the first occurrence was
\* fetched and stored without history, the second was served from the cache
C6_Witness ==
  /\ op = "fetch_perf"
  /\ pc = "done"
  /\ Len(users) = 2 /\ users[1] = users[2]
  /\ checked = 2 /\ cached = 1 /\ runCalls = 1 /\ runSaves = 1
  /\ FirstEntry(data, users[1])[2] = None
  /\ Unique(data)

\* ================================================= properties (SpecFilter)
\* the user the last FilterUser step scanned
Scanned == fidx > 1
LastPerf == parsed[fidx - 1][2]
Dist(point, target) == Abs(point[1] - target)

\* the first point, in stored order, among the points of a non-empty series at
\* minimum day-distance to the target
FirstNearest(perf, target) ==
  perf[CHOOSE i \in 1..Len(perf) :
         /\ \A j \in 1..Len(perf) : Dist(perf[i], target) <= Dist(perf[j], target)
         /\ \A j \in 1..(i - 1) : Dist(perf[j], target) > Dist(perf[i], target)]

AllHaveScore ==
  HasScore(closest.start) /\ HasScore(closest.end)
    /\ HasScore(closest.ref_start) /\ HasScore(closest.ref_end)

\* C3 as claimed - tolerance assignment: a scanned user is accepted exactly when
\* its four matches have a score, the start and end matches lie within
\* `tolerance` of their targets and the ref_start and ref_end matches lie
\* within `ref_tolerance` of theirs.
C3_ToleranceAssignment ==
  Scanned =>
    (accepted <=>
       /\ AllHaveScore
       /\ Abs(closest.start.day - args.start) <= args.tolerance
       /\ Abs(closest.end.day - args.end) <= args.tolerance
       /\ Abs(closest.ref_start.day - args.ref_start) <= args.ref_tolerance
       /\ Abs(closest.ref_end.day - args.ref_end) <= args.ref_tolerance)

\* C7 as claimed - nearest match and tie-break: for each of the four targets,
\* the point selected from a non-empty series is the first point, in stored
\* order, among those at minimum day-distance to the target.
C7_NearestFirstWins ==
  (Scanned /\ Len(LastPerf) > 0) =>
    /\ closest.start = Found(FirstNearest(LastPerf, args.start))
    /\ closest.end = Found(FirstNearest(LastPerf, args.end))
    /\ closest.ref_start = Found(FirstNearest(LastPerf, args.ref_start))
    /\ closest.ref_end = Found(FirstNearest(LastPerf, args.ref_end))

ScenarioInput == args = ScenarioArgs /\ parsed = << <<"A", SeriesA>> >>

\* C8 as claimed - end-to-end scenario: for user A's series and the default
\* targets and tolerances, filter_perf returns exactly (110, 150, 100, 130).
C8_ScenarioAsStated ==
  (ScenarioInput /\ fpc = "returned") => values = << <<110, 150, 100, 130>> >>

\* C8 amended - end-to-end scenario: for user A's series and the default
\* targets and tolerances, filter_perf accepts A and returns and saves exactly
\* (110, 150, 100, 110): the point nearest to ref_end 2020-03-01 is 2020-03-04.
C8_Scenario ==
  /\ (ScenarioInput /\ Scanned) =>
       /\ accepted
       /\ closest.start = Found(<<Date(2020, 3, 4), 110>>)
       /\ closest.ref_end = Found(<<Date(2020, 3, 4), 110>>)
       /\ values = << <<110, 150, 100, 110>> >>
  /\ (ScenarioInput /\ fpc = "returned") =>
       samplefile = [exists |-> TRUE, values |-> << <<110, 150, 100, 110>> >>]

\* filter_perf has returned for the scenario's input with one tuple
C8_Witness ==
  /\ ScenarioInput
  /\ args.start = 737489
  /\ fpc = "returned"
  /\ Len(values) = 1

\* what the acceptance rule asks of a series: non-empty, and for each target
\* the nearest point within tol days
NearestWithin(perf, target, tol) ==
  Len(perf) > 0 /\ Dist(FirstNearest(perf, target), target) <= tol

\* C9 as claimed - acceptance rule with equal tolerances: a scanned user adds a
\* tuple iff its series is non-empty and for each of the four targets the
\* nearest point lies within tolerance, whatever its integer value (0
\* included); the tuple holds the values of those points in the order start,
\* end, ref_start, ref_end, and no user adds more than one tuple.
C9_AcceptanceRule ==
  (Scanned /\ args.tolerance = args.ref_tolerance) =>
    LET perf == LastPerf
        ok == /\ NearestWithin(perf, args.start, args.tolerance)
              /\ NearestWithin(perf, args.end, args.tolerance)
              /\ NearestWithin(perf, args.ref_start, args.tolerance)
              /\ NearestWithin(perf, args.ref_end, args.tolerance)
    IN /\ accepted <=> ok
       /\ Len(values) <= fidx - 1
       /\ accepted =>
            values[Len(values)] = <<FirstNearest(perf, args.start)[2],
                                    FirstNearest(perf, args.end)[2],
                                    FirstNearest(perf, args.ref_start)[2],
                                    FirstNearest(perf, args.ref_end)[2]>>

\* the four targets with the tolerance the design gives each
Targets ==
  { [name |-> "start", day |-> args.start, tol |-> args.tolerance],
    [name |-> "end", day |-> args.end, tol |-> args.tolerance],
    [name |-> "ref_start", day |-> args.ref_start, tol |-> args.ref_tolerance],
    [name |-> "ref_end", day |-> args.ref_end, tol |-> args.ref_tolerance] }

\* C10 as claimed - tolerance boundary: for each target, when the other three
\* targets are matched within their tolerance, a scanned user whose nearest
\* point is exactly the target's tolerance away is accepted, and one whose
\* nearest point is one day further is rejected.
C10_ToleranceBoundary ==
  (Scanned /\ Len(LastPerf) > 0) =>
    \A t \in Targets :
      (\A o \in Targets \ {t} : NearestWithin(LastPerf, o.day, o.tol)) =>
        /\ Dist(FirstNearest(LastPerf, t.day), t.day) = t.tol => accepted
        /\ Dist(FirstNearest(LastPerf, t.day), t.day) = t.tol + 1 => ~accepted

\* ============================================ properties (Spec), continued
Min(a, b) == IF a <= b THEN a ELSE b

\* C11: when the first remote call for a user is answered with 404,
\* get_puzzle_history makes no second call and does not sleep, its result is
\* None, nothing is raised by it, fetch_perf appends (user, None), saves the
\* list (the file then ends with that entry) and the loop has moved past that
\* user; the only way the run stops there is a failing save.
C11_NotFound ==
  (op = "fetch_perf" /\ Len(outs) >= 1 /\ outs[1] = ResponseError(404)) =>
    /\ Len(outs) = 1
    /\ sleeps = 0
    /\ h = None
    /\ pc \in {"append", "save_open", "save_write", "save_rename", "loop", "done", "aborted"}
    /\ pc = "aborted" => raised = StorageError
    /\ pc \in {"save_open", "save_write", "save_rename"} => data[Len(data)] = <<user, None>>
    /\ pc \in {"loop", "done"} =>
         /\ data[Len(data)] = <<user, None>>
         /\ perffile.entries = data
         /\ \E k \in 1..(idx - 1) : users[k] = user

\* the first of two candidates was answered with 404, its entry is in the file
\* and the loop is about to examine the second candidate
C11_Witness ==
  /\ op = "fetch_perf" /\ pc = "loop"
  /\ outs = <<ResponseError(404)>>
  /\ Len(users) = 2 /\ idx = 2 /\ checked < num
  /\ user = users[1] /\ users[2] # users[1]
  /\ perffile.entries = <<(<<user, None>>)>>

\* C14: a run of fetch_perf that returns has examined exactly the first
\* min(num, len(users)) candidates; each examined candidate is either a cache
\* hit (no remote call) or a miss that added one entry, so the run added at
\* most num entries; during the run no more than that many are examined.
C14_ProcessingCap ==
  op = "fetch_perf" =>
    /\ pc \in {"loop", "done"} =>
         /\ checked = idx - 1
         /\ checked <= Min(num, Len(users))
         /\ checked = cached + runSaves
         /\ Len(data) = Len(atStart.data) + runSaves
    /\ pc = "done" => checked = Min(num, Len(users))
    /\ pc # "crashed" =>
         /\ Len(data) <= Len(atStart.data) + num
         /\ runSaves <= num
         /\ cached <= checked /\ checked <= num

\* a returned run with cap 1 over two candidates: the first was a cache hit that
\* used up the cap, the second was not examined
C14_Witness ==
  /\ op = "fetch_perf" /\ pc = "done"
  /\ Len(users) = 2 /\ num = 1
  /\ checked = 1 /\ cached = 1 /\ runCalls = 0
  /\ ~InCache(data, users[2])

\* C15: every step leaves the list in memory and the list in the cache file
\* unchanged or appends exactly one entry, for a user that had none; entries
\* already there keep their user, their history and their position. (A killed
\* process loses its memory and the next process reloads the file: these two
\* steps are not steps of fetch_perf and only the file is compared there.)
C15_AppendOnly ==
  [][/\ \/ perffile'.entries = perffile.entries
        \/ /\ Len(perffile'.entries) = Len(perffile.entries) + 1
           /\ IsPrefix(perffile.entries, perffile'.entries)
           /\ ~InCache(perffile.entries, perffile'.entries[Len(perffile'.entries)][1])
     /\ (pc' # "crashed" /\ pc \notin {"crashed", "aborted"}) =>
           \/ data' = data
           \/ /\ Len(data') = Len(data) + 1
              /\ IsPrefix(data, data')
              /\ ~InCache(data, data'[Len(data')][1])]_vars

\* a second run appended a second entry behind the entry of the first run
C15_Witness ==
  /\ op = "fetch_perf" /\ runs = 2 /\ runSaves = 1
  /\ Len(atStart.file.entries) = 1
  /\ Len(perffile.entries) = 2
  /\ perffile.entries[1] = atStart.file.entries[1]
  /\ perffile.entries[2][1] # perffile.entries[1][1]

\* C18: when the first call was throttled and the second call, made after the
\* one sleep, raises (throttling, not-found or anything else), the error leaves
\* get_puzzle_history and fetch_perf: the run is aborted with that error,
\* nothing was appended for the user, and the file holds what the last
\* completed save wrote.
C18_RetryErrorPropagates ==
  (op = "fetch_perf" /\ Len(outs) = 2 /\ outs[2].kind # "ok") =>
    /\ outs[1] = ResponseError(429)
    /\ sleeps = 1
    /\ pc = "aborted"
    /\ raised = outs[2]
    /\ ~InCache(data, user)
    /\ ~InCache(perffile.entries, user)
    /\ perffile.entries = committed
    /\ perffile.entries = data
    /\ Len(perffile.entries) = Len(atStart.file.entries) + runSaves

\* the second candidate was throttled and then answered with 404 on the retry,
\* after the first candidate had been saved
C18_Witness ==
  /\ op = "fetch_perf" /\ pc = "aborted"
  /\ outs = <<ResponseError(429), ResponseError(404)>>
  /\ runSaves = 1 /\ sleeps = 1
  /\ Len(perffile.entries) = Len(atStart.file.entries) + 1

\* =============================================== properties (SpecPipeline)
HasHistory(e) == e[2].some /\ Len(e[2].points) > 0
AfterAnswer == {"append", "save_open", "save_write", "save_rename", "loop", "done"}

\* C12: an answer without a "Puzzles" track makes get_puzzle_history return
\* None and fetch_perf append (user, None); once that entry is in the file the
\* user has no other entry, no run makes a remote call for the user, the user
\* is not in the list parse_perf hands to filter_perf, and filter_perf emits
\* tuples only for users of that list: at most one per scanned user, and
\* sample.json never holds more tuples than the file has users with history.
C12_NoHistoryPersistence ==
  /\ (op = "fetch_perf" /\ pc \in AfterAnswer /\ Len(outs) >= 1
        /\ outs[Len(outs)] = Ok(HistNoPuzzles)) =>
       /\ h = None
       /\ pc # "append" => data[Len(data)] = <<user, None>>
  /\ \A u \in noTrack :
       /\ InCache(perffile.entries, u)
       /\ \A i \in 1..Len(perffile.entries) :
            perffile.entries[i][1] = u => perffile.entries[i][2] = None
       /\ (op = "fetch_perf" /\ pc \in {"call1", "sleep", "call2"}) => user # u
       /\ \A k \in 1..Len(parsed) : parsed[k][1] # u
  /\ Len(values) <= fidx - 1
  /\ fidx - 1 <= Len(parsed)
  /\ Len(samplefile.values) <= Len(SelectSeq(perffile.entries, HasHistory))

\* a run cached "a" without a track and "b" with its points; the filter
\* command that followed emitted the one tuple of "b"
C12_Witness ==
  /\ noTrack = {"a"}
  /\ perffile.entries = << <<"a", None>>, <<"b", Some(RawPoints)>> >>
  /\ pc = "filter" /\ fpc = "returned"
  /\ args = SpringArgs
  /\ Len(parsed) = 1 /\ parsed[1][1] = "b"
  /\ samplefile.values = << <<110, 150, 110, 150>> >>

\* C16: the points of the "Puzzles" track of an answer are appended and saved
\* as they came, zero-based month included, and every history in the file is
\* such a list; parse_perf keeps the users with history in order and turns
\* each raw point (y, m, d, v) of theirs into (date(y, m + 1, d), v), in
\* order; filter_perf only picks among those dated points.
C16_MonthNormalizedOnce ==
  /\ (op = "fetch_perf" /\ pc \in AfterAnswer /\ Len(outs) >= 1
        /\ outs[Len(outs)] = Ok(HistBoth)) =>
       /\ h = Some(RawPoints)
       /\ pc # "append" => data[Len(data)] = <<user, Some(RawPoints)>>
       /\ pc \in {"loop", "done"} =>
            perffile.entries[Len(perffile.entries)] = <<user, Some(RawPoints)>>
  /\ \A i \in 1..Len(perffile.entries) :
       perffile.entries[i][2] \in {None, Some(RawPoints)}
  /\ pc = "filter" =>
       LET kept == SelectSeq(data, HasHistory)
       IN /\ Len(parsed) = Len(kept)
          /\ \A k \in 1..Len(kept) :
               /\ parsed[k][1] = kept[k][1]
               /\ Len(parsed[k][2]) = Len(kept[k][2].points)
               /\ \A j \in 1..Len(kept[k][2].points) :
                    LET d == kept[k][2].points[j]
                    IN parsed[k][2][j] = <<Date(d[1], d[2] + 1, d[3]), d[4]>>
          /\ \A t \in {"start", "ref_start", "end", "ref_end"} :
               \/ closest[t] = Sentinel
               \/ \E k \in 1..Len(parsed) : \E j \in 1..Len(parsed[k][2]) :
                    /\ closest[t].day = parsed[k][2][j][1]
                    /\ closest[t].score = parsed[k][2][j][2]

\* the raw points (2020, 2, 4, 110) and (2020, 3, 6, 150) fetched for "b" are
\* in the file as they came and the filter command scanned them as
\* 2020-03-04 and 2020-04-06
C16_Witness ==
  /\ op = "filter" /\ pc = "filter" /\ fidx = 2
  /\ perffile.entries = << <<"b", [some |-> TRUE, points |-> << <<2020, 2, 4, 110>>, <<2020, 3, 6, 150>> >>]>> >>
  /\ parsed = << <<"b", << <<737488, 110>>, <<737521, 150>> >> >> >>
  /\ closest.start.day = Date(2020, 3, 4)
  /\ closest.end.day = Date(2020, 4, 6)

\* =================================================== properties (SpecMain)
\* C13 as claimed - cache load on start-up: a "fetch" command that finds no
\* cache file goes on with an empty cache and without an error, and an absent
\* cache file ends a command with an error only if the command is "filter".
C13_CacheLoadOnStartup ==
  /\ (op = "fetch" /\ ~perffile.exists /\ pc \notin {"shell", "load"}) =>
       (raised = NoError /\ data = <<>>)
  /\ (~perffile.exists /\ raised = FileNotFoundError) => op = "filter"

\* the sample the acceptance rule gives for a (user, series) list and target
\* dates with one tolerance, from user k on
ExpectedTuple(perf, a) ==
  IF /\ NearestWithin(perf, a.start, a.tolerance)
     /\ NearestWithin(perf, a.end, a.tolerance)
     /\ NearestWithin(perf, a.ref_start, a.tolerance)
     /\ NearestWithin(perf, a.ref_end, a.tolerance)
  THEN << <<FirstNearest(perf, a.start)[2], FirstNearest(perf, a.end)[2],
            FirstNearest(perf, a.ref_start)[2], FirstNearest(perf, a.ref_end)[2]>> >>
  ELSE <<>>

RECURSIVE ExpectedSample(_, _, _)
ExpectedSample(d, a, k) ==
  IF k > Len(d) THEN <<>>
  ELSE ExpectedTuple(d[k][2], a) \o ExpectedSample(d, a, k + 1)

StatsLoaded == op = "stats" /\ pc \in {"analyze", "period", "exited"}

\* C17 as claimed - sample store keyed by run parameters: the sample a "stats"
\* command has loaded is the one the filter pass gives for the target dates
\* and tolerances of that "stats" command.
C17_SampleKeyedByParameters ==
  StatsLoaded => values = ExpectedSample(ParsePerf(perffile.entries), args, 1)

\* C17, amended: sample.json is one file; a "stats" command loads what the
\* most recent completed filter_perf call wrote, which is the sample for the
\* target dates of that call, whatever the target dates of the "stats"
\* command are.
C17_StatsReloadsLastSample ==
  /\ StatsLoaded =>
       /\ samplefile.exists
       /\ values = samplefile.values
  /\ samplefile.exists =>
       /\ sampleArgs \in CommandArgs
       /\ samplefile.values = ExpectedSample(ParsePerf(perffile.entries), sampleArgs, 1)
  /\ (op = "filter" /\ pc = "exited") => sampleArgs = args

\* "stats" run with the default target dates has loaded the two tuples a
\* filter run for other target dates wrote; the default dates give no tuple
C17_Witness ==
  /\ StatsLoaded
  /\ args = ScenarioArgs
  /\ sampleArgs = SpringArgs
  /\ values = << <<110, 150, 110, 150>>, <<150, 110, 150, 110>> >>
  /\ ExpectedSample(ParsePerf(perffile.entries), args, 1) = <<>>

\* ================================================ properties (SpecAnalyze)
\* start and end values of sample i in period k (1: study, 2: reference)
StartValue(k, i) == IF k = 1 THEN values[i][1] ELSE values[i][3]
EndValue(k, i) == IF k = 1 THEN values[i][2] ELSE values[i][4]

\* C19 as claimed - direction of change: for each period reported, the number
\* given as "improved" is the number of samples whose end value is greater
\* than the start value, the number given as "regressed" is the number whose
\* end value is less, and samples with equal values are in neither.
C19_DirectionOfChange ==
  \A k \in 1..Len(report) :
    /\ report[k].improved =
         Cardinality({i \in 1..Len(values) : EndValue(k, i) > StartValue(k, i)})
    /\ report[k].regressed =
         Cardinality({i \in 1..Len(values) : EndValue(k, i) < StartValue(k, i)})
    /\ report[k].improved + report[k].regressed
         + Cardinality({i \in 1..Len(values) : EndValue(k, i) = StartValue(k, i)})
         = report[k].of
====
